---- MODULE Spec2Model ----
(***************************************************************************)
(* Model of mendes/src/lib.rs: the per-request Context, its PathState      *)
(* cursor over the '/'-separated segments of the URI path, the at-most-    *)
(* once body, and the FromContext extraction impls.                        *)
(*                                                                         *)
(* Strings are sequences of one-character strings.  Offsets are 0-based    *)
(* byte offsets as in the source; Option<T> is a sequence of length 0      *)
(* (None) or 1 (Some(v)).                                                  *)
(***************************************************************************)
EXTENDS Integers, Sequences, FiniteSets, TLC

\* ------------------------------------------------------------------ bounds
\* number of atoms a request path is concatenated from
MaxParts == 3
\* number of logged calls made on one Context
MaxCalls == 3
MaxRequests == 2

\* ------------------------------------------------------------- Option<T>
None == <<>>
Some(v) == <<v>>
IsSome(o) == Len(o) = 1
Unwrap(o) == o[1]

\* ------------------------------------------------------------ str helpers
\* &s[start..] for a 0-based offset start <= len
SliceFrom(s, start) == SubSeq(s, start + 1, Len(s))

\* &s[..end]
SliceTo(s, end) == SubSeq(s, 1, end)

\* str::find(c): 0-based offset of the first occurrence of c
Find(s, c) ==
    IF \E i \in 1..Len(s) : s[i] = c
    THEN Some((CHOOSE i \in 1..Len(s) :
                  s[i] = c /\ \A j \in 1..(i - 1) : s[j] # c) - 1)
    ELSE None

\* --------------------------------------------------------- request inputs
Nines == <<"9", "9", "9", "9", "9", "9", "9", "9", "9", "9">>

Atoms == { <<"/">>, <<"a">>, <<"4", "2">>, <<"-">>, Nines }

RECURSIVE Concats(_)
Concats(n) ==
    IF n = 0 THEN { <<>> }
    ELSE LET shorter == Concats(n - 1)
         IN  shorter \cup { p \o a : p \in shorter, a \in Atoms }

\* the paths the documentation walks through:
\* "/users/42/edit", "/users/", "/42/edit", "/abc"
Examples ==
    { <<"/", "u", "s", "e", "r", "s", "/", "4", "2", "/", "e", "d", "i", "t">>,
      <<"/", "u", "s", "e", "r", "s", "/">>,
      <<"/", "4", "2", "/", "e", "d", "i", "t">>,
      <<"/", "a", "b", "c">> }

\* the URI paths requests are made with
Paths == Concats(MaxParts) \cup Examples

\* the request body handed to Context::new
Payload == "payload"

\* ---------------------------------------------------------------- PathState
\* PathState::new without the skip of the leading '/'
PathState_new_no_skip(p) ==
    [ prev |-> None,
      next |-> IF p = <<>> \/ p = <<"/">> THEN None ELSE Some(0) ]

\* PathState::new without the test for the path "/"
PathState_new_no_root(p) ==
    [ prev |-> None,
      next |-> IF p = <<>> THEN None
               ELSE IF Find(p, "/") = Some(0) THEN Some(1)
               ELSE Some(0) ]

PathState_new(p) ==
    [ prev |-> None,
      next |-> IF p = <<>> \/ p = <<"/">> THEN None
               ELSE IF Find(p, "/") = Some(0) THEN Some(1)
               ELSE Some(0) ]

\* PathState::next that drops the old offset when a '/' follows the segment
PathState_next_drops_prev(ps, p) ==
    IF ps.next = None
    THEN [ prev |-> ps.prev, next |-> ps.next, ret |-> None ]
    ELSE LET start == Unwrap(ps.next)
             tail  == SliceFrom(p, start)
         IN  IF tail = <<>>
             THEN [ prev |-> ps.next, next |-> None, ret |-> None ]
             ELSE LET found == Find(tail, "/")
                  IN  IF IsSome(found)
                      THEN LET end == Unwrap(found)
                           IN  [ prev |-> ps.prev,
                                 next |-> Some(start + end + 1),
                                 ret  |-> Some(SliceTo(tail, end)) ]
                      ELSE [ prev |-> ps.next, next |-> None,
                             ret  |-> Some(tail) ]

\* PathState::next without the test for an empty tail
PathState_next_no_empty_test(ps, p) ==
    IF ps.next = None
    THEN [ prev |-> ps.prev, next |-> ps.next, ret |-> None ]
    ELSE LET start == Unwrap(ps.next)
             tail  == SliceFrom(p, start)
             found == Find(tail, "/")
         IN  IF IsSome(found)
             THEN LET end == Unwrap(found)
                  IN  [ prev |-> ps.next,
                        next |-> Some(start + end + 1),
                        ret  |-> Some(SliceTo(tail, end)) ]
             ELSE [ prev |-> ps.next, next |-> None, ret |-> Some(tail) ]

\* PathState::next that takes the offset of the '/' within the tail for an
\* offset within the path
PathState_next_relative(ps, p) ==
    IF ps.next = None
    THEN [ prev |-> ps.prev, next |-> ps.next, ret |-> None ]
    ELSE LET start == Unwrap(ps.next)
             tail  == SliceFrom(p, start)
         IN  IF tail = <<>>
             THEN [ prev |-> ps.next, next |-> None, ret |-> None ]
             ELSE LET found == Find(tail, "/")
                  IN  IF IsSome(found)
                      THEN LET end == Unwrap(found)
                           IN  [ prev |-> ps.next,
                                 next |-> Some(end + 1),
                                 ret  |-> Some(SliceTo(tail, end)) ]
                      ELSE [ prev |-> ps.next, next |-> None,
                             ret  |-> Some(tail) ]

\* PathState::next that forgets prev when the cursor is already exhausted
PathState_next_clears_prev(ps, p) ==
    IF ps.next = None
    THEN [ prev |-> None, next |-> ps.next, ret |-> None ]
    ELSE LET start == Unwrap(ps.next)
             tail  == SliceFrom(p, start)
         IN  IF tail = <<>>
             THEN [ prev |-> ps.next, next |-> None, ret |-> None ]
             ELSE LET found == Find(tail, "/")
                  IN  IF IsSome(found)
                      THEN LET end == Unwrap(found)
                           IN  [ prev |-> ps.next,
                                 next |-> Some(start + end + 1),
                                 ret  |-> Some(SliceTo(tail, end)) ]
                      ELSE [ prev |-> ps.next, next |-> None,
                             ret  |-> Some(tail) ]

\* PathState::next that stops on the '/' instead of after it
PathState_next_on_separator(ps, p) ==
    IF ps.next = None
    THEN [ prev |-> ps.prev, next |-> ps.next, ret |-> None ]
    ELSE LET start == Unwrap(ps.next)
             tail  == SliceFrom(p, start)
         IN  IF tail = <<>>
             THEN [ prev |-> ps.next, next |-> None, ret |-> None ]
             ELSE LET found == Find(tail, "/")
                  IN  IF IsSome(found)
                      THEN LET end == Unwrap(found)
                           IN  [ prev |-> ps.next,
                                 next |-> Some(start + end),
                                 ret  |-> Some(SliceTo(tail, end)) ]
                      ELSE [ prev |-> ps.next, next |-> None,
                             ret  |-> Some(tail) ]

\* PathState::next: the cursor after the call and the returned Option<&str>
PathState_next(ps, p) ==
    IF ps.next = None
    THEN [ prev |-> ps.prev, next |-> ps.next, ret |-> None ]
    ELSE LET start == Unwrap(ps.next)
             tail  == SliceFrom(p, start)
         IN  IF tail = <<>>
             THEN [ prev |-> ps.next, next |-> None, ret |-> None ]
             ELSE LET found == Find(tail, "/")
                  IN  IF IsSome(found)
                      THEN LET end == Unwrap(found)
                           IN  [ prev |-> ps.next,
                                 next |-> Some(start + end + 1),
                                 ret  |-> Some(SliceTo(tail, end)) ]
                      ELSE [ prev |-> ps.next, next |-> None,
                             ret  |-> Some(tail) ]

\* PathState::rest that does not store the offset it started from
PathState_rest_drops_prev(ps, p) ==
    IF ps.next = None
    THEN [ prev |-> ps.prev, next |-> None, ret |-> <<>> ]
    ELSE LET start == Unwrap(ps.next)
         IN  [ prev |-> ps.prev, next |-> None,
               ret  |-> SliceFrom(p, start) ]

\* PathState::rest that reads next without taking it
PathState_rest_peeks(ps, p) ==
    IF ps.next = None
    THEN [ prev |-> ps.prev, next |-> None, ret |-> <<>> ]
    ELSE LET start == Unwrap(ps.next)
         IN  [ prev |-> Some(start), next |-> ps.next,
               ret  |-> SliceFrom(p, start) ]

\* PathState::rest: the cursor after the call and the returned &str
PathState_rest(ps, p) ==
    IF ps.next = None
    THEN [ prev |-> ps.prev, next |-> None, ret |-> <<>> ]
    ELSE LET start == Unwrap(ps.next)
         IN  [ prev |-> Some(start), next |-> None,
               ret  |-> SliceFrom(p, start) ]

\* PathState::rewind that copies prev instead of taking it
PathState_rewind_copies(ps) ==
    [ prev |-> ps.prev, next |-> ps.prev ]

\* PathState::rewind
PathState_rewind(ps) ==
    [ prev |-> None, next |-> ps.prev ]

\* ------------------------------------------------------- integer parsing
\* An integer is kept as its sign and its decimal magnitude without leading
\* zeros (usize values do not fit the checker's machine integers).
Digits == { "0", "1", "2", "3", "4", "5", "6", "7", "8", "9" }

DigitVal(c) ==
    CASE c = "0" -> 0 [] c = "1" -> 1 [] c = "2" -> 2 [] c = "3" -> 3
      [] c = "4" -> 4 [] c = "5" -> 5 [] c = "6" -> 6 [] c = "7" -> 7
      [] c = "8" -> 8 [] c = "9" -> 9

RECURSIVE StripZeros(_)
StripZeros(d) ==
    IF Len(d) > 1 /\ d[1] = "0" THEN StripZeros(Tail(d)) ELSE d

\* a <= b for magnitudes without leading zeros
MagLeq(a, b) ==
    \/ Len(a) < Len(b)
    \/ /\ Len(a) = Len(b)
       /\ \/ a = b
          \/ \E i \in 1..Len(a) :
                /\ DigitVal(a[i]) < DigitVal(b[i])
                /\ \A j \in 1..(i - 1) : a[j] = b[j]

\* usize::MAX on a 64-bit target, 18446744073709551615
USIZE_MAX ==
    <<"1", "8", "4", "4", "6", "7", "4", "4", "0", "7",
      "3", "7", "0", "9", "5", "5", "1", "6", "1", "5">>

\* i32::MAX, 2147483647
I32_MAX == <<"2", "1", "4", "7", "4", "8", "3", "6", "4", "7">>

\* the magnitude of i32::MIN, 2147483648
I32_MIN_MAG == <<"2", "1", "4", "7", "4", "8", "3", "6", "4", "8">>

Int_(neg, mag) == [ neg |-> neg, mag |-> mag ]

ParseOk(v) == [ ok |-> TRUE, val |-> v ]
ParseErr == [ ok |-> FALSE, val |-> Int_(FALSE, <<"0">>) ]

\* <usize as FromStr>::from_str: radix 10, an optional '+', no '-'
usize_from_str(s) ==
    IF s = <<>> THEN ParseErr
    ELSE IF Len(s) = 1 /\ s[1] \in { "+", "-" } THEN ParseErr
    ELSE LET digits == IF s[1] = "+" THEN Tail(s) ELSE s
             mag    == StripZeros(digits)
         IN  IF \E i \in 1..Len(digits) : digits[i] \notin Digits
             THEN ParseErr
             ELSE IF ~ MagLeq(mag, USIZE_MAX) THEN ParseErr
             ELSE ParseOk(Int_(FALSE, mag))

\* <i32 as FromStr>::from_str: radix 10, an optional '+' or '-'
i32_from_str(s) ==
    IF s = <<>> THEN ParseErr
    ELSE IF Len(s) = 1 /\ s[1] \in { "+", "-" } THEN ParseErr
    ELSE LET neg    == s[1] = "-"
             digits == IF s[1] \in { "+", "-" } THEN Tail(s) ELSE s
             mag    == StripZeros(digits)
         IN  IF \E i \in 1..Len(digits) : digits[i] \notin Digits
             THEN ParseErr
             ELSE IF ~ MagLeq(mag, IF neg THEN I32_MIN_MAG ELSE I32_MAX)
             THEN ParseErr
             ELSE ParseOk(Int_(neg /\ mag # <<"0">>, mag))

\* ------------------------------------------------------------ FromContext
\* Result<T, A::Error>; the error is the ClientError it was made from
Ok(v) == [ ok |-> TRUE, val |-> v, err |-> "" ]
Err(e) == [ ok |-> FALSE, val |-> <<>>, err |-> e ]

\* impl FromContext for Option<&str>
FromContext_opt(ps, p) ==
    LET r == PathState_next(ps, p)
    IN  [ prev |-> r.prev, next |-> r.next, ret |-> Ok(r.ret) ]

\* impl FromContext for &str
FromContext_str(ps, p) ==
    LET r == PathState_next(ps, p)
    IN  [ prev |-> r.prev, next |-> r.next,
          ret  |-> IF IsSome(r.ret) THEN Ok(Unwrap(r.ret))
                   ELSE Err("NotFound") ]

\* usize extraction that reports a parse failure as BadRequest
FromContext_usize_bad_request(ps, p) ==
    LET r == PathState_next(ps, p)
    IN  [ prev |-> r.prev, next |-> r.next,
          ret  |-> IF r.ret = None THEN Err("NotFound")
                   ELSE LET v == usize_from_str(Unwrap(r.ret))
                        IN  IF v.ok THEN Ok(v.val) ELSE Err("BadRequest") ]

\* usize extraction that puts the cursor back when the segment does not parse
FromContext_usize_restores(ps, p) ==
    LET r == PathState_next(ps, p)
    IN  IF r.ret = None
        THEN [ prev |-> r.prev, next |-> r.next, ret |-> Err("NotFound") ]
        ELSE LET v == usize_from_str(Unwrap(r.ret))
             IN  IF v.ok
                 THEN [ prev |-> r.prev, next |-> r.next, ret |-> Ok(v.val) ]
                 ELSE [ prev |-> ps.prev, next |-> ps.next,
                        ret  |-> Err("NotFound") ]

\* impl FromContext for usize
FromContext_usize(ps, p) ==
    LET r == PathState_next(ps, p)
    IN  [ prev |-> r.prev, next |-> r.next,
          ret  |-> IF r.ret = None THEN Err("NotFound")
                   ELSE LET v == usize_from_str(Unwrap(r.ret))
                        IN  IF v.ok THEN Ok(v.val) ELSE Err("NotFound") ]

\* i32 extraction that puts the cursor back when the segment does not parse
FromContext_i32_restores(ps, p) ==
    LET r == PathState_next(ps, p)
    IN  IF r.ret = None
        THEN [ prev |-> r.prev, next |-> r.next, ret |-> Err("NotFound") ]
        ELSE LET v == i32_from_str(Unwrap(r.ret))
             IN  IF v.ok
                 THEN [ prev |-> r.prev, next |-> r.next, ret |-> Ok(v.val) ]
                 ELSE [ prev |-> ps.prev, next |-> ps.next,
                        ret  |-> Err("NotFound") ]

\* impl FromContext for i32
FromContext_i32(ps, p) ==
    LET r == PathState_next(ps, p)
    IN  [ prev |-> r.prev, next |-> r.next,
          ret  |-> IF r.ret = None THEN Err("NotFound")
                   ELSE LET v == i32_from_str(Unwrap(r.ret))
                        IN  IF v.ok THEN Ok(v.val) ELSE Err("NotFound") ]

\* -------------------------------------------------------------------- state
VARIABLES
    path,   \* req.uri.path(), fixed at construction
    prev,   \* Context.path.prev
    next,   \* Context.path.next
    body,   \* Context.body
    hist,   \* the calls made on the Context so far, oldest first
    ret,    \* what the most recent call returned
    features,   \* the cargo features the crate is built with
    ctype,      \* headers.get("content-type")
    bytes,      \* the body bytes handed to from_body_bytes
    codec,      \* the codec from_body_bytes called, if it called one
    result,     \* what from_body_bytes or the handler returned
    status,     \* the StatusCode the error was turned into
    cxs,        \* hyper::run: the Context of each request
    app,        \* hyper::run: the application behind the Arc
    turn        \* hyper::run: the request whose task ran last

cxVars == <<path, prev, next, body, hist, ret>>
decodeVars == <<features, ctype, bytes, codec, result, status>>
serveVars == <<cxs, app, turn>>

vars == <<cxVars, decodeVars, serveVars>>

\* no body is being decoded
NoDecode ==
    /\ features = {}
    /\ ctype = <<>>
    /\ bytes = ""
    /\ codec = <<>>
    /\ result = <<>>
    /\ status = <<>>

\* no server is running
NoServer ==
    /\ cxs = <<>>
    /\ app = <<>>
    /\ turn = 0

cursor == [ prev |-> prev, next |-> next ]

\* a log entry: the call, what it returned, and the Context it was made on
Call(op, r) ==
    [ op |-> op, ret |-> r, prev |-> prev, next |-> next, body |-> body ]

\* Context::new
Context_new(p) ==
    /\ path = p
    /\ prev = PathState_new(p).prev
    /\ next = PathState_new(p).next
    /\ body = Some(Payload)
    /\ hist = <<>>
    /\ ret = None

Init ==
    /\ \E p \in Paths : Context_new(p)
    /\ NoDecode
    /\ NoServer

\* Context::next
Context_next ==
    /\ Len(hist) < MaxCalls
    /\ LET r == PathState_next(cursor, path)
       IN  /\ prev' = r.prev
           /\ next' = r.next
           /\ ret' = r.ret
           /\ hist' = Append(hist, Call("next", r.ret))
    /\ UNCHANGED <<path, body>>
    /\ UNCHANGED <<decodeVars, serveVars>>

\* Context::rest
Context_rest ==
    /\ Len(hist) < MaxCalls
    /\ LET r == PathState_rest(cursor, path)
       IN  /\ prev' = r.prev
           /\ next' = r.next
           /\ ret' = r.ret
           /\ hist' = Append(hist, Call("rest", r.ret))
    /\ UNCHANGED <<path, body>>
    /\ UNCHANGED <<decodeVars, serveVars>>

\* Context::rewind that rebuilds the Context without its body
Context_rewind_drops_body ==
    /\ Len(hist) < MaxCalls
    /\ LET r == PathState_rewind([ prev |-> prev, next |-> next ])
       IN  /\ prev' = r.prev
           /\ next' = r.next
    /\ ret' = <<>>
    /\ body' = <<>>
    /\ hist' = Append(hist, [ op |-> "rewind", ret |-> <<>>, prev |-> prev,
                              next |-> next, body |-> body ])
    /\ UNCHANGED path
    /\ UNCHANGED <<decodeVars, serveVars>>

\* Context::rewind
Context_rewind ==
    /\ Len(hist) < MaxCalls
    /\ LET r == PathState_rewind(cursor)
       IN  /\ prev' = r.prev
           /\ next' = r.next
    /\ ret' = None
    /\ hist' = Append(hist, Call("rewind", None))
    /\ UNCHANGED <<path, body>>
    /\ UNCHANGED <<decodeVars, serveVars>>

\* Context::take_body that clones the body instead of taking it
Context_take_body_clones ==
    /\ Len(hist) < MaxCalls
    /\ ret' = body
    /\ body' = body
    /\ hist' = Append(hist, [ op |-> "take_body", ret |-> body, prev |-> prev,
                              next |-> next, body |-> body ])
    /\ UNCHANGED <<path, prev, next>>
    /\ UNCHANGED <<decodeVars, serveVars>>

\* Context::take_body: Option::take
Context_take_body ==
    /\ Len(hist) < MaxCalls
    /\ ret' = body
    /\ body' = None
    /\ hist' = Append(hist, Call("take_body", body))
    /\ UNCHANGED <<path, prev, next>>
    /\ UNCHANGED <<decodeVars, serveVars>>

\* the request head the Context was built from
Method == "GET"
Headers == << <<"host", "localhost">> >>
App == "app"
req == [ method |-> Method, uri |-> path, headers |-> Headers ]

\* Context::app, Context::req, Context::method, Context::uri,
\* Context::headers: the &self accessors
Accessors == { "app", "req", "method", "uri", "headers" }

Context_get(k) ==
    CASE k = "app" -> App
      [] k = "req" -> req
      [] k = "method" -> req.method
      [] k = "uri" -> req.uri
      [] k = "headers" -> req.headers

Accessor(k) ==
    /\ ret' = <<k, Context_get(k)>>
    /\ UNCHANGED <<path, prev, next, body, hist>>
    /\ UNCHANGED <<decodeVars, serveVars>>

Next ==
    \/ Context_next
    \/ Context_rest
    \/ Context_rewind
    \/ Context_take_body
    \/ \E k \in Accessors : Accessor(k)

Spec == Init /\ [][Next]_vars

\* --------------------------------------------- handler argument extraction
\* impl FromContext for &http::request::Parts
FromContext_parts ==
    /\ Len(hist) < MaxCalls
    /\ ret' = Ok(req)
    /\ hist' = Append(hist, Call("parts", Ok(req)))
    /\ UNCHANGED <<path, prev, next, body>>
    /\ UNCHANGED <<decodeVars, serveVars>>

Extractors == { "opt", "str", "usize", "i32" }

FromContext(k, ps, p) ==
    CASE k = "opt" -> FromContext_opt(ps, p)
      [] k = "str" -> FromContext_str(ps, p)
      [] k = "usize" -> FromContext_usize(ps, p)
      [] k = "i32" -> FromContext_i32(ps, p)

\* T::from_context(&mut cx) for the segment-consuming impls
Extract(k) ==
    /\ Len(hist) < MaxCalls
    /\ LET r == FromContext(k, cursor, path)
       IN  /\ prev' = r.prev
           /\ next' = r.next
           /\ ret' = r.ret
           /\ hist' = Append(hist, Call(k, r.ret))
    /\ UNCHANGED <<path, body>>
    /\ UNCHANGED <<decodeVars, serveVars>>

NextExtract ==
    \/ FromContext_parts
    \/ \E k \in Extractors : Extract(k)
    \/ Context_rewind

SpecExtract == Init /\ [][NextExtract]_vars

\* ------------------------------------- the Context API with &Parts extraction
FramePaths == Examples \cup Concats(1)

InitFrame ==
    /\ \E p \in FramePaths : Context_new(p)
    /\ NoDecode
    /\ NoServer

NextFrame ==
    \/ Next
    \/ FromContext_parts

SpecFrame == InitFrame /\ [][NextFrame]_vars

\* ------------------------------------------------- ClientError, body decoding
\* enum ClientError
ClientError ==
    { "BadRequest", "Unauthorized", "PaymentRequired", "Forbidden",
      "NotFound", "MethodNotAllowed", "NotAcceptable",
      "ProxyAuthenticationRequired", "RequestTimeout", "Conflict", "Gone",
      "LengthRequired", "PreconditionFailed", "PayloadTooLarge",
      "RequestUriTooLong", "UnsupportedMediaType",
      "RequestedRangeNotSatisfiable", "ExpectationFailed",
      "MisdirectedRequest", "UnprocessableEntity", "Locked",
      "FailedDependency", "UpgradeRequired", "PreconditionRequired",
      "TooManyRequests", "RequestHeaderFieldsTooLarge",
      "UnavailableForLegalReasons" }

\* From<ClientError> for StatusCode with PayloadTooLarge sent to URI_TOO_LONG
StatusCode_from_shared(e) ==
    CASE e = "BadRequest" -> 400
      [] e = "Unauthorized" -> 401
      [] e = "PaymentRequired" -> 402
      [] e = "Forbidden" -> 403
      [] e = "NotFound" -> 404
      [] e = "MethodNotAllowed" -> 405
      [] e = "NotAcceptable" -> 406
      [] e = "ProxyAuthenticationRequired" -> 407
      [] e = "RequestTimeout" -> 408
      [] e = "Conflict" -> 409
      [] e = "Gone" -> 410
      [] e = "LengthRequired" -> 411
      [] e = "PreconditionFailed" -> 412
      [] e = "PayloadTooLarge" -> 414
      [] e = "RequestUriTooLong" -> 414
      [] e = "UnsupportedMediaType" -> 415
      [] e = "RequestedRangeNotSatisfiable" -> 416
      [] e = "ExpectationFailed" -> 417
      [] e = "MisdirectedRequest" -> 421
      [] e = "UnprocessableEntity" -> 422
      [] e = "Locked" -> 423
      [] e = "FailedDependency" -> 424
      [] e = "UpgradeRequired" -> 426
      [] e = "PreconditionRequired" -> 428
      [] e = "TooManyRequests" -> 429
      [] e = "RequestHeaderFieldsTooLarge" -> 431
      [] e = "UnavailableForLegalReasons" -> 451

\* impl From<ClientError> for StatusCode, as the code's number
StatusCode_from(e) ==
    CASE e = "BadRequest" -> 400
      [] e = "Unauthorized" -> 401
      [] e = "PaymentRequired" -> 402
      [] e = "Forbidden" -> 403
      [] e = "NotFound" -> 404
      [] e = "MethodNotAllowed" -> 405
      [] e = "NotAcceptable" -> 406
      [] e = "ProxyAuthenticationRequired" -> 407
      [] e = "RequestTimeout" -> 408
      [] e = "Conflict" -> 409
      [] e = "Gone" -> 410
      [] e = "LengthRequired" -> 411
      [] e = "PreconditionFailed" -> 412
      [] e = "PayloadTooLarge" -> 413
      [] e = "RequestUriTooLong" -> 414
      [] e = "UnsupportedMediaType" -> 415
      [] e = "RequestedRangeNotSatisfiable" -> 416
      [] e = "ExpectationFailed" -> 417
      [] e = "MisdirectedRequest" -> 421
      [] e = "UnprocessableEntity" -> 422
      [] e = "Locked" -> 423
      [] e = "FailedDependency" -> 424
      [] e = "UpgradeRequired" -> 426
      [] e = "PreconditionRequired" -> 428
      [] e = "TooManyRequests" -> 429
      [] e = "RequestHeaderFieldsTooLarge" -> 431
      [] e = "UnavailableForLegalReasons" -> 451

\* the cargo features that gate a codec
Features == { "serde_urlencoded", "serde_json", "uploads" }

FORM ==
    <<"a", "p", "p", "l", "i", "c", "a", "t", "i", "o", "n", "/", "x", "-",
      "w", "w", "w", "-", "f", "o", "r", "m", "-", "u", "r", "l", "e", "n",
      "c", "o", "d", "e", "d">>

\* types::JSON
JSON ==
    <<"a", "p", "p", "l", "i", "c", "a", "t", "i", "o", "n", "/", "j", "s",
      "o", "n">>

MULTIPART ==
    <<"m", "u", "l", "t", "i", "p", "a", "r", "t", "/", "f", "o", "r", "m",
      "-", "d", "a", "t", "a">>

BOUNDARY ==
    <<";", " ", "b", "o", "u", "n", "d", "a", "r", "y", "=", "x">>

CHARSET ==
    <<";", " ", "c", "h", "a", "r", "s", "e", "t", "=", "u", "t", "f", "-",
      "8">>

TEXT ==
    <<"t", "e", "x", "t", "/", "p", "l", "a", "i", "n">>

\* the values the content-type header is sent with
ContentTypes ==
    { FORM, JSON, JSON \o CHARSET, MULTIPART, MULTIPART \o BOUNDARY, TEXT }

\* the bodies requests are sent with
Bodies == { "[1]", "a=1", "--x", "" }

\* what each codec makes of a body: the decoded value or no value
serde_urlencoded_from_bytes(b) ==
    IF b \in { "a=1", "" } THEN Some(<<"form", b>>) ELSE None

serde_json_from_slice(b) ==
    IF b = "[1]" THEN Some(<<"json", b>>) ELSE None

forms_from_form_data(b) ==
    IF b = "--x" THEN Some(<<"multipart", b>>) ELSE None

\* <[u8]>::starts_with
StartsWith(t, pre) == Len(t) >= Len(pre) /\ SubSeq(t, 1, Len(pre)) = pre

\* the match arm taken when the multipart arm compares the whole value
Arm_exact(feats, ct) ==
    IF IsSome(ct) /\ "serde_urlencoded" \in feats /\ Unwrap(ct) = FORM
    THEN "form"
    ELSE IF IsSome(ct) /\ "serde_json" \in feats /\ Unwrap(ct) = JSON
    THEN "json"
    ELSE IF IsSome(ct) /\ "uploads" \in feats /\ Unwrap(ct) = MULTIPART
    THEN "multipart"
    ELSE IF ct = None THEN "absent"
    ELSE "other"

\* the match arm from_body_bytes takes: the codec it calls, or none
Arm(feats, ct) ==
    IF IsSome(ct) /\ "serde_urlencoded" \in feats /\ Unwrap(ct) = FORM
    THEN "form"
    ELSE IF IsSome(ct) /\ "serde_json" \in feats /\ Unwrap(ct) = JSON
    THEN "json"
    ELSE IF IsSome(ct) /\ "uploads" \in feats /\ StartsWith(Unwrap(ct), MULTIPART)
    THEN "multipart"
    ELSE IF ct = None THEN "absent"
    ELSE "other"

\* from_body_bytes where the JSON arm lets the codec's error through as a
\* BadRequest
from_body_bytes_raw_error(feats, ct, b) ==
    LET arm == Arm(feats, ct)
        dec == CASE arm = "form" -> serde_urlencoded_from_bytes(b)
                 [] arm = "json" -> serde_json_from_slice(b)
                 [] arm = "multipart" -> forms_from_form_data(b)
                 [] OTHER -> None
    IN  CASE arm = "absent" -> Err("BadRequest")
          [] arm = "other" -> Err("UnsupportedMediaType")
          [] OTHER -> IF IsSome(dec) THEN Ok(Unwrap(dec))
                      ELSE IF arm = "json" THEN Err("BadRequest")
                      ELSE Err("UnprocessableEntity")

\* from_body_bytes
from_body_bytes(feats, ct, b) ==
    LET arm == Arm(feats, ct)
        dec == CASE arm = "form" -> serde_urlencoded_from_bytes(b)
                 [] arm = "json" -> serde_json_from_slice(b)
                 [] arm = "multipart" -> forms_from_form_data(b)
                 [] OTHER -> None
    IN  CASE arm = "absent" -> Err("BadRequest")
          [] arm = "other" -> Err("UnsupportedMediaType")
          [] OTHER -> IF IsSome(dec) THEN Ok(Unwrap(dec))
                      ELSE Err("UnprocessableEntity")

\* no Context is in use
NoContext ==
    /\ path = <<>>
    /\ prev = None
    /\ next = None
    /\ body = None
    /\ hist = <<>>
    /\ ret = None

\* a request with a body arrives at a build of the crate
InitDecode ==
    /\ features \in SUBSET Features
    /\ ctype \in { None } \cup { Some(t) : t \in ContentTypes }
    /\ bytes \in Bodies
    /\ codec = None
    /\ result = None
    /\ status = None
    /\ NoContext
    /\ NoServer

\* the handler decodes the body
Decode ==
    /\ result = None
    /\ result' = Some(from_body_bytes(features, ctype, bytes))
    /\ codec' = Some(Arm(features, ctype))
    /\ UNCHANGED <<features, ctype, bytes, status>>
    /\ UNCHANGED <<cxVars, serveVars>>

\* the handler fails with a ClientError of its own
Raise(e) ==
    /\ result = None
    /\ result' = Some(Err(e))
    /\ UNCHANGED <<features, ctype, bytes, codec, status>>
    /\ UNCHANGED <<cxVars, serveVars>>

\* the error is turned into its StatusCode
Respond ==
    /\ IsSome(result)
    /\ ~ Unwrap(result).ok
    /\ status = None
    /\ status' = Some(StatusCode_from(Unwrap(result).err))
    /\ UNCHANGED <<features, ctype, bytes, codec, result>>
    /\ UNCHANGED <<cxVars, serveVars>>

NextDecode ==
    \/ Decode
    \/ \E e \in ClientError : Raise(e)
    \/ Respond

SpecDecode == InitDecode /\ [][NextDecode]_vars

\* ------------------------------------------------------------- hyper::run
\* the requests the server is sent
Requests == 1..MaxRequests

\* the Arc<A> that run makes of the application
Arc_new(a) == [ state |-> a, strong |-> 1 ]

\* Arc::clone
Arc_clone(h) == [ h EXCEPT !.strong = @ + 1 ]

\* dropping one clone of the Arc
Arc_drop(h) == [ h EXCEPT !.strong = @ - 1 ]

\* the Context that Context::new builds for request r with path p
Context_of(r, p) ==
    [ path |-> p,
      prev |-> PathState_new(p).prev,
      next |-> PathState_new(p).next,
      body |-> Some(<<Payload, r>>),
      live |-> TRUE ]

\* the paths the served requests are made with
ServePaths == { p \in Examples : Len(p) \in { 4, 8 } }

\* what the handler calls on its Context
Ops == { "next", "rest", "rewind", "take_body", "app" }

\* the Context after the call op
Context_after(cx, op) ==
    LET c == [ prev |-> cx.prev, next |-> cx.next ]
        n == CASE op = "next" -> PathState_next(c, cx.path)
               [] op = "rest" -> PathState_rest(c, cx.path)
               [] op = "rewind" -> PathState_rewind(c)
               [] OTHER -> c
    IN  [ cx EXCEPT !.prev = n.prev,
                    !.next = n.next,
                    !.body = IF op = "take_body" THEN None ELSE @ ]

Live(r) == IsSome(cxs[r]) /\ Unwrap(cxs[r]).live

InitServe ==
    /\ cxs = [ r \in Requests |-> None ]
    /\ app = Arc_new(App)
    /\ turn = 0
    /\ NoContext
    /\ NoDecode

\* service_fn: request r arrives and gets its Context
Serve(r, p) ==
    /\ cxs[r] = None
    /\ cxs' = [ cxs EXCEPT ![r] = Some(Context_of(r, p)) ]
    /\ app' = Arc_clone(app)
    /\ turn' = r
    /\ UNCHANGED <<cxVars, decodeVars>>

\* A::handle where the cursor and the body are one per server, not one per
\* Context
Handle_shared(r, op) ==
    /\ Live(r)
    /\ cxs' = [ q \in Requests |->
                  IF IsSome(cxs[q])
                  THEN Some([ Unwrap(cxs[q]) EXCEPT
                         !.prev = Context_after(Unwrap(cxs[r]), op).prev,
                         !.next = Context_after(Unwrap(cxs[r]), op).next,
                         !.body = IF op = "take_body" THEN None ELSE @ ])
                  ELSE None ]
    /\ turn' = r
    /\ UNCHANGED app
    /\ UNCHANGED <<cxVars, decodeVars>>

\* A::handle: the task of request r makes one call on its Context
Handle(r, op) ==
    /\ Live(r)
    /\ cxs' = [ cxs EXCEPT ![r] = Some(Context_after(Unwrap(cxs[r]), op)) ]
    /\ turn' = r
    /\ UNCHANGED app
    /\ UNCHANGED <<cxVars, decodeVars>>

\* the handler of request r returns and its Context is dropped
Finish(r) ==
    /\ Live(r)
    /\ cxs' = [ cxs EXCEPT ![r] = Some([ Unwrap(cxs[r]) EXCEPT !.live = FALSE ]) ]
    /\ app' = Arc_drop(app)
    /\ turn' = r
    /\ UNCHANGED <<cxVars, decodeVars>>

NextServe ==
    \/ \E r \in Requests, p \in ServePaths : Serve(r, p)
    \/ \E r \in Requests, op \in Ops : Handle(r, op)
    \/ \E r \in Requests : Finish(r)

SpecServe == InitServe /\ [][NextServe]_vars

\* ================================================================ properties
Calls == 1..Len(hist)

\* the cursor a logged call was made on, and the cursor it left
CursorAt(i) == [ prev |-> hist[i].prev, next |-> hist[i].next ]
CursorAfter(i) == IF i < Len(hist) THEN CursorAt(i + 1) ELSE cursor

Exhausted == [ prev |-> None, next |-> None ]

\* the calls that read the path through the cursor
Consuming == { "next", "rest", "opt", "str", "usize", "i32" }

\* the pieces of s between '/' separators
RECURSIVE Split(_)
Split(s) ==
    IF \A i \in 1..Len(s) : s[i] # "/"
    THEN << s >>
    ELSE LET i == CHOOSE k \in 1..Len(s) :
                     s[k] = "/" /\ \A j \in 1..(k - 1) : s[j] # "/"
         IN  << SubSeq(s, 1, i - 1) >> \o Split(SubSeq(s, i + 1, Len(s)))

\* the segments of a path: its pieces after one leading '/', where what
\* follows the last '/' is a piece only if it is not empty
Pieces(p) ==
    LET stripped == IF Len(p) > 0 /\ p[1] = "/" THEN Tail(p) ELSE p
        sp       == Split(stripped)
    IN  IF sp[Len(sp)] = <<>> THEN SubSeq(sp, 1, Len(sp) - 1) ELSE sp

OnlyOp(op) == \A i \in Calls : hist[i].op = op

\* C1: undo law. On a fresh Context the calls next, rewind, next return the
\* same result from both next calls, and leave the cursor as the first next
\* alone left it.
C1_UndoLaw ==
    ( /\ Len(hist) >= 3
      /\ hist[1].op = "next"
      /\ hist[2].op = "rewind"
      /\ hist[3].op = "next" )
    => /\ hist[3].ret = hist[1].ret
       /\ CursorAfter(3) = CursorAfter(1)

C1_Witness ==
    /\ Len(hist) = 3
    /\ hist[1].op = "next" /\ hist[2].op = "rewind" /\ hist[3].op = "next"
    /\ hist[3].ret = Some(<<"a">>)
    /\ IsSome(next)

\* C2 as stated: every next or rest call, on an exhausted cursor too, leaves
\* in prev the value next had before the call, and a rewind right after it
\* puts that value back into next.
C2_Original ==
    \A i \in Calls :
        hist[i].op \in { "next", "rest" }
        => /\ CursorAfter(i).prev = hist[i].next
           /\ ( i < Len(hist) /\ hist[i + 1].op = "rewind" )
              => CursorAfter(i + 1).next = hist[i].next

\* C2: every next or rest call made on a cursor that is not exhausted
\* (next = Some(s)) leaves prev = Some(s), and a rewind right after it puts
\* Some(s) back into next.
C2_PrevIsPosition ==
    \A i \in Calls :
        ( hist[i].op \in { "next", "rest" } /\ IsSome(hist[i].next) )
        => /\ CursorAfter(i).prev = hist[i].next
           /\ ( i < Len(hist) /\ hist[i + 1].op = "rewind" )
              => CursorAfter(i + 1).next = hist[i].next

C2_Witness ==
    /\ Len(hist) = 3
    /\ hist[1].op = "next"
    /\ hist[2].op = "rest"
    /\ hist[3].op = "rewind"
    /\ IsSome(hist[2].next)
    /\ hist[2].next # hist[1].next
    /\ hist[3].prev = hist[2].next
    /\ next = hist[2].next

\* no next/rest/extraction call before call i since the rewind before it, or
\* since construction when there is none
NoConsumingSinceUndo(i) ==
    \A j \in 1..(i - 1) :
        hist[j].op \in Consuming
        => \E k \in (j + 1)..(i - 1) : hist[k].op = "rewind"

\* C3: single-level undo. A rewind with no consuming call since construction
\* or since the previous rewind leaves the cursor exhausted (prev and next
\* both None); a next right after it returns None and a rest returns "".
C3_SingleLevelUndo ==
    \A i \in Calls :
        ( hist[i].op = "rewind" /\ NoConsumingSinceUndo(i) )
        => /\ CursorAfter(i) = Exhausted
           /\ ( i < Len(hist) /\ hist[i + 1].op = "next" )
              => hist[i + 1].ret = None
           /\ ( i < Len(hist) /\ hist[i + 1].op = "rest" )
              => hist[i + 1].ret = <<>>

C3_Witness ==
    /\ Len(hist) = 3
    /\ hist[1].op = "next" /\ hist[2].op = "rewind" /\ hist[3].op = "rewind"
    /\ IsSome(hist[1].ret)
    /\ IsSome(hist[2].prev)
    /\ IsSome(hist[3].next)
    /\ cursor = Exhausted

\* C4: on a fresh Context, next calls with nothing in between return the
\* segments of the path in order, without their separators, and None from
\* then on.
C4_Segments ==
    OnlyOp("next")
    => \A i \in Calls :
          hist[i].ret = IF i <= Len(Pieces(path))
                        THEN Some(Pieces(path)[i])
                        ELSE None

C4_Witness ==
    /\ Len(hist) = 3
    /\ OnlyOp("next")
    /\ path = <<"/", "/", "a">>
    /\ hist[1].ret = Some(<<>>)
    /\ hist[2].ret = Some(<<"a">>)
    /\ hist[3].ret = None

\* C5: for the paths "" and "/" the Context is built with an exhausted
\* cursor, a first next returns None and a first rest returns "".
C5_RootExhausted ==
    path \in { <<>>, <<"/">> }
    => /\ Len(hist) = 0 => cursor = Exhausted
       /\ ( Len(hist) >= 1 /\ hist[1].op = "next" ) => hist[1].ret = None
       /\ ( Len(hist) >= 1 /\ hist[1].op = "rest" ) => hist[1].ret = <<>>
       /\ Len(hist) >= 1 => CursorAt(1) = Exhausted

C5_Witness ==
    /\ path = <<"/">>
    /\ Len(hist) = 1
    /\ hist[1].op = "next"
    /\ ret = None

\* the cursor stands at a last, non-empty segment that a '/' ends
AtTrailingSlash(c) ==
    /\ IsSome(c.next)
    /\ Unwrap(c.next) < Len(path) - 1
    /\ path[Len(path)] = "/"
    /\ \A k \in (Unwrap(c.next) + 1)..(Len(path) - 1) : path[k] # "/"

\* C6: trailing slash. A next on the last, non-empty segment of a path that
\* ends in '/' returns that segment; the next right after it returns None,
\* leaves prev at the offset of the empty tail (the length of the path) and
\* clears next.
C6_TrailingSlash ==
    \A i \in Calls :
        ( hist[i].op = "next" /\ AtTrailingSlash(CursorAt(i)) )
        => /\ hist[i].ret =
                Some(SubSeq(path, Unwrap(hist[i].next) + 1, Len(path) - 1))
           /\ ( i < Len(hist) /\ hist[i + 1].op = "next" )
              => /\ hist[i + 1].ret = None
                 /\ CursorAfter(i + 1) =
                        [ prev |-> Some(Len(path)), next |-> None ]

C6_Witness ==
    /\ Len(hist) = 2
    /\ OnlyOp("next")
    /\ path = <<"/", "u", "s", "e", "r", "s", "/">>
    /\ AtTrailingSlash(CursorAt(1))
    /\ hist[1].ret = Some(<<"u", "s", "e", "r", "s">>)
    /\ hist[2].ret = None
    /\ prev = Some(7) /\ next = None

\* C7: rest on a cursor at offset s returns path[s..] whole, leaves
\* prev = Some(s) and next = None, and until a rewind every later next
\* returns None and every later rest ""; on an exhausted cursor rest
\* returns "". As the first call on a path "/x..." it returns "x...".
C7_Rest ==
    \A i \in Calls :
        hist[i].op = "rest"
        => IF hist[i].next = None
           THEN hist[i].ret = <<>>
           ELSE LET s == Unwrap(hist[i].next)
                IN  /\ hist[i].ret = SubSeq(path, s + 1, Len(path))
                    /\ CursorAfter(i) = [ prev |-> Some(s), next |-> None ]
                    /\ ( i = 1 /\ path[1] = "/" ) => hist[i].ret = Tail(path)
                    /\ \A j \in (i + 1)..Len(hist) :
                          ( \A k \in (i + 1)..(j - 1) : hist[k].op # "rewind" )
                          => /\ hist[j].op = "next" => hist[j].ret = None
                             /\ hist[j].op = "rest" => hist[j].ret = <<>>

C7_Witness ==
    /\ Len(hist) = 3
    /\ hist[1].op = "next" /\ hist[2].op = "rest" /\ hist[3].op = "next"
    /\ path = <<"/", "u", "s", "e", "r", "s", "/", "4", "2", "/", "e", "d", "i", "t">>
    /\ hist[2].ret = <<"4", "2", "/", "e", "d", "i", "t">>
    /\ hist[3].ret = None
    /\ cursor = [ prev |-> Some(7), next |-> None ]

\* C8: the first take_body call on a Context returns the payload and every
\* later one returns None, whatever other calls are made in between; the
\* body is present exactly until the first take_body.
C8_BodySingleTake ==
    /\ \A i \in Calls :
          hist[i].op = "take_body"
          => hist[i].ret = IF \E j \in 1..(i - 1) : hist[j].op = "take_body"
                           THEN None
                           ELSE Some(Payload)
    /\ body = IF \E i \in Calls : hist[i].op = "take_body"
              THEN None
              ELSE Some(Payload)

C8_Witness ==
    /\ Len(hist) = 3
    /\ hist[1].op = "take_body" /\ hist[1].ret = Some(Payload)
    /\ hist[2].op = "rest"
    /\ hist[3].op = "take_body" /\ hist[3].ret = None
    /\ ret = <<"headers", Headers>>

\* a next on cursor c yields a segment
Yields(c) == IsSome(c.next) /\ Unwrap(c.next) < Len(path)

\* the segment at cursor c: from its offset up to the '/' after it or the end
SegmentAt(c) ==
    LET s    == Unwrap(c.next)
        stop == { k \in (s + 1)..Len(path) : path[k] = "/" } \cup { Len(path) + 1 }
        e    == CHOOSE k \in stop : \A m \in stop : k <= m
    IN  SubSeq(path, s + 1, e - 1)

FortyTwo == Int_(FALSE, <<"4", "2">>)

\* what from_str makes of the segments the paths are built from
ParsesAs(k, seg) ==
    CASE seg = <<"4", "2">> -> Ok(FortyTwo)
      [] seg = <<"a">> -> Err("NotFound")
      [] seg = <<"-">> -> Err("NotFound")
      [] seg = <<>> -> Err("NotFound")
      [] seg = <<"-", "4", "2">> ->
            IF k = "i32" THEN Ok(Int_(TRUE, <<"4", "2">>)) ELSE Err("NotFound")
      [] seg = Nines ->
            IF k = "usize" THEN Ok(Int_(FALSE, Nines)) ELSE Err("NotFound")
      [] seg = Nines \o Nines -> Err("NotFound")

Known ==
    { <<"4", "2">>, <<"a">>, <<"-">>, <<>>, <<"-", "4", "2">>, Nines,
      Nines \o Nines }

\* the outcome the extraction of kind k has on cursor c
Outcome(k, c) ==
    IF ~ Yields(c)
    THEN IF k = "opt" THEN Ok(None) ELSE Err("NotFound")
    ELSE LET seg == SegmentAt(c)
         IN  CASE k = "opt" -> Ok(Some(seg))
               [] k = "str" -> Ok(seg)
               [] k = "usize" ->
                     IF usize_from_str(seg).ok
                     THEN Ok(usize_from_str(seg).val) ELSE Err("NotFound")
               [] k = "i32" ->
                     IF i32_from_str(seg).ok
                     THEN Ok(i32_from_str(seg).val) ELSE Err("NotFound")

\* C9: typed extraction outcomes. &str succeeds with the segment iff next
\* yields one; usize and i32 succeed with the value iff next yields a segment
\* that parses as a decimal integer of the type ("42" is 42 for both, "a", a
\* missing segment and an out-of-range value fail); Option<&str> and &Parts
\* never fail; the only error is NotFound.
C9_ExtractionOutcomes ==
    \A i \in Calls :
        /\ hist[i].op \in Extractors
           => /\ hist[i].ret = Outcome(hist[i].op, CursorAt(i))
              /\ ( /\ hist[i].op \in { "usize", "i32" }
                   /\ Yields(CursorAt(i))
                   /\ SegmentAt(CursorAt(i)) \in Known )
                 => hist[i].ret = ParsesAs(hist[i].op, SegmentAt(CursorAt(i)))
        /\ hist[i].op \in { "opt", "parts" } => hist[i].ret.ok
        /\ hist[i].op \in Extractors \cup { "parts" }
           => ( hist[i].ret.ok \/ hist[i].ret.err = "NotFound" )

C9_Witness ==
    /\ Len(hist) = 3
    /\ path = <<"4", "2", "/", "9", "9", "9", "9", "9", "9", "9", "9", "9", "9">>
    /\ hist[1].op = "usize" /\ hist[1].ret = Ok(FortyTwo)
    /\ hist[2].op = "i32" /\ hist[2].ret = Err("NotFound")
    /\ hist[3].op = "str" /\ hist[3].ret = Err("NotFound")

\* how many of the calls 1..i consume a segment
Consumed(i) == Cardinality({ j \in 1..i : hist[j].op \in Extractors })

\* the i-th segment of the path, if it has one
NthSegment(n) ==
    IF n <= Len(Pieces(path)) THEN Some(Pieces(path)[n]) ELSE None

\* the value an extraction of kind k binds to the Option<segment> o
Bind(k, o) ==
    CASE k = "opt" -> Ok(o)
      [] k = "str" -> IF IsSome(o) THEN Ok(Unwrap(o)) ELSE Err("NotFound")
      [] k = "usize" ->
            IF IsSome(o) /\ usize_from_str(Unwrap(o)).ok
            THEN Ok(usize_from_str(Unwrap(o)).val) ELSE Err("NotFound")
      [] k = "i32" ->
            IF IsSome(o) /\ i32_from_str(Unwrap(o)).ok
            THEN Ok(i32_from_str(Unwrap(o)).val) ELSE Err("NotFound")

\* C10: parameter order is route order. When only extractions run on a
\* Context, the i-th segment-consuming one is bound to the i-th segment of
\* the path (usize then &str on "/42/edit" bind 42 and "edit") and the &Parts
\* extraction leaves the cursor where it was.
C10_ParameterOrder ==
    ( \A i \in Calls : hist[i].op # "rewind" )
    => \A i \in Calls :
          /\ hist[i].op \in Extractors
             => hist[i].ret = Bind(hist[i].op, NthSegment(Consumed(i)))
          /\ hist[i].op = "parts" => CursorAfter(i) = CursorAt(i)
          /\ ( /\ path = <<"/", "4", "2", "/", "e", "d", "i", "t">>
               /\ i = 2
               /\ hist[1].op = "usize"
               /\ hist[2].op = "str" )
             => /\ hist[1].ret = Ok(FortyTwo)
                /\ hist[2].ret = Ok(<<"e", "d", "i", "t">>)

C10_Witness ==
    /\ Len(hist) = 3
    /\ path = <<"/", "4", "2", "/", "e", "d", "i", "t">>
    /\ hist[1].op = "usize" /\ hist[1].ret = Ok(FortyTwo)
    /\ hist[2].op = "str" /\ hist[2].ret = Ok(<<"e", "d", "i", "t">>)
    /\ hist[3].op = "opt" /\ hist[3].ret = Ok(None)

\* C13: frame conditions. The accessors and the &Parts extraction leave the
\* cursor and the body as they were, and an accessor can always be called;
\* next, rest and rewind leave the body and the request head; take_body
\* leaves the cursor.
C13_Frame ==
    /\ [](\A k \in Accessors : ENABLED Accessor(k))
    /\ [][ /\ hist' = hist => UNCHANGED <<path, prev, next, body>>
           /\ hist' # hist
              => LET op == hist'[Len(hist')].op
                 IN  /\ op = "parts" => UNCHANGED <<path, prev, next, body>>
                     /\ op \in { "next", "rest", "rewind" }
                        => UNCHANGED <<path, body>>
                     /\ op = "take_body" => UNCHANGED <<path, prev, next>>
         ]_vars

C13_Witness ==
    /\ Len(hist) = 3
    /\ hist[1].op = "next" /\ IsSome(hist[1].ret)
    /\ hist[2].op = "parts"
    /\ hist[3].op = "rewind"
    /\ hist[2].body = Some(Payload) /\ body = Some(Payload)
    /\ CursorAt(3) = CursorAt(2)
    /\ ret = <<"uri", path>>

\* c is None or an offset within the path that is the offset the cursor
\* started from or the offset right after a '/'
InBounds(c) ==
    IsSome(c)
    => /\ Unwrap(c) \in 0..Len(path)
       /\ \/ c = PathState_new(path).next
          \/ ( Unwrap(c) >= 1 /\ path[Unwrap(c)] = "/" )

\* C17: bounds. After any calls of next, rest and rewind, prev and next are
\* None or an offset in 0..=len(path) that is the initial offset or the
\* offset right after a '/', so path[start..] is always within the path.
C17_InBounds == InBounds(prev) /\ InBounds(next)

C17_Witness ==
    /\ Len(hist) = 3
    /\ OnlyOp("next")
    /\ path = <<"/", "u", "s", "e", "r", "s", "/", "4", "2", "/", "e", "d", "i", "t">>
    /\ prev = Some(10)
    /\ next = None
    /\ CursorAt(3) = [ prev |-> Some(7), next |-> Some(10) ]

\* C18: a failed integer extraction is not rolled back. When usize or i32
\* fails on a segment that does not parse, the cursor has moved past the
\* segment with prev at the segment's start; a rewind right after puts next
\* back there and the extraction after it gets the same segment.
C18_FailedParseAdvances ==
    \A i \in Calls :
        ( /\ hist[i].op \in { "usize", "i32" }
          /\ Yields(CursorAt(i))
          /\ ~ hist[i].ret.ok )
        => /\ CursorAfter(i).prev = hist[i].next
           /\ CursorAfter(i).next # hist[i].next
           /\ ( i < Len(hist) /\ hist[i + 1].op = "rewind" )
              => /\ CursorAfter(i + 1).next = hist[i].next
                 /\ ( i + 1 < Len(hist) /\ hist[i + 2].op \in Extractors )
                    => hist[i + 2].ret =
                          Bind(hist[i + 2].op, Some(SegmentAt(CursorAt(i))))

C18_Witness ==
    /\ Len(hist) = 3
    /\ path = <<"/", "a", "b", "c">>
    /\ hist[1].op = "usize" /\ hist[1].ret = Err("NotFound")
    /\ hist[2].op = "rewind"
    /\ hist[3].op = "str" /\ hist[3].ret = Ok(<<"a", "b", "c">>)

\* C19: next and rest on an exhausted cursor return None and "" and leave
\* prev and next as they were, so the cursor stays exhausted until a rewind.
C19_ExhaustedIsStable ==
    \A i \in Calls :
        ( hist[i].op \in { "next", "rest" } /\ hist[i].next = None )
        => /\ hist[i].op = "next" => hist[i].ret = None
           /\ hist[i].op = "rest" => hist[i].ret = <<>>
           /\ CursorAfter(i) = CursorAt(i)
           /\ \A j \in (i + 1)..Len(hist) :
                 ( \A k \in (i + 1)..(j - 1) : hist[k].op # "rewind" )
                 => hist[j].next = None

C19_Witness ==
    /\ Len(hist) = 3
    /\ hist[1].op = "rest" /\ IsSome(hist[1].next)
    /\ hist[2].op = "next" /\ hist[2].ret = None
    /\ hist[3].op = "rest" /\ hist[3].ret = <<>>
    /\ IsSome(prev) /\ prev = hist[1].next
    /\ next = None

Slashes == Cardinality({ k \in 1..Len(path) : path[k] = "/" })

\* C20: progress. With only next calls on a fresh Context, a next that leaves
\* the cursor not exhausted moves it to a larger offset, and one of the first
\* (number of '/' in the path) + 2 calls returns None.
C20_Progress ==
    OnlyOp("next")
    => /\ \A i \in Calls :
             IsSome(CursorAfter(i).next)
             => Unwrap(CursorAfter(i).next) > Unwrap(hist[i].next)
       /\ Len(hist) >= Slashes + 2
          => \E i \in 1..(Slashes + 2) : hist[i].ret = None

C20_Witness ==
    /\ Len(hist) = 3
    /\ OnlyOp("next")
    /\ Slashes = 1
    /\ IsSome(hist[1].ret) /\ IsSome(hist[2].ret)
    /\ hist[2].next = Some(2)
    /\ hist[3].ret = None

\* ---------------------------------------------------------------- decoding
\* the body has been decoded
Decoded == IsSome(codec) /\ IsSome(result)

\* the content-type header is present with value t
Header(t) == ctype = Some(t)

\* the decoding failed as kind e
FailedAs(e) == ~ Unwrap(result).ok /\ Unwrap(result).err = e

\* C11: body decode dispatch. Once the body has been decoded: with
\* content-type application/json and bytes the JSON codec accepts the
\* decoding succeeded with that codec's value; with the same header and bytes
\* the JSON codec rejects it failed as UnprocessableEntity; with no
\* content-type header it failed as BadRequest; with text/plain it failed as
\* UnsupportedMediaType; a failure of whichever codec was called is
\* UnprocessableEntity, and no failure is of any kind but BadRequest,
\* UnsupportedMediaType and UnprocessableEntity. (The JSON codec exists in
\* the builds with the serde_json feature.)
C11_BodyDispatch ==
    Decoded =>
        /\ (Header(JSON) /\ "serde_json" \in features)
              => IF IsSome(serde_json_from_slice(bytes))
                 THEN Unwrap(result) = Ok(Unwrap(serde_json_from_slice(bytes)))
                 ELSE FailedAs("UnprocessableEntity")
        /\ ctype = None => FailedAs("BadRequest")
        /\ Header(TEXT) => FailedAs("UnsupportedMediaType")
        /\ (Header(FORM) /\ "serde_urlencoded" \in features
              /\ serde_urlencoded_from_bytes(bytes) = None)
              => FailedAs("UnprocessableEntity")
        /\ (Header(MULTIPART \o BOUNDARY) /\ "uploads" \in features
              /\ forms_from_form_data(bytes) = None)
              => FailedAs("UnprocessableEntity")
        /\ ~ Unwrap(result).ok
              => Unwrap(result).err \in
                   { "BadRequest", "UnsupportedMediaType", "UnprocessableEntity" }

C11_Witness ==
    /\ Decoded
    /\ Header(JSON)
    /\ "serde_json" \in features
    /\ bytes = "a=1"
    /\ FailedAs("UnprocessableEntity")

\* every kind has a client-error status code
Total == \A e \in ClientError : StatusCode_from(e) \in 400..499

\* no two kinds share a status code
Injective ==
    \A e, f \in ClientError : StatusCode_from(e) = StatusCode_from(f) => e = f

\* the status code of a response names the one kind that failed
StatusNamesKind ==
    IsSome(status) =>
        \A e \in ClientError :
            Unwrap(status) = StatusCode_from(e) <=> Unwrap(result).err = e

\* C12 as stated: the ClientError enumeration has 26 kinds and the
\* conversion to StatusCode is total and injective.
C12_Original ==
    /\ StatusNamesKind
    /\ Cardinality(ClientError) = 26
    /\ Total
    /\ Injective

\* C12: status mapping totality. The ClientError enumeration has 27 kinds;
\* the conversion gives every kind one client-error status code, no two kinds
\* share a code, and the code of a response names the one kind that failed.
C12_StatusMapping ==
    /\ StatusNamesKind
    /\ Cardinality(ClientError) = 27
    /\ Total
    /\ Injective

C12_Witness ==
    /\ result = Some(Err("PayloadTooLarge"))
    /\ status = Some(413)

\* C16: decoder selection depends only on the content-type value. Once the
\* body has been decoded, in a build that has the codec: the urlencoded form
\* media type selected the form codec, the JSON media type the JSON codec,
\* and any value beginning with multipart/form-data the multipart codec,
\* whatever the body bytes are; a decoded value is the selected codec's.
C16_DecoderSelection ==
    Decoded =>
        /\ (Header(FORM) /\ "serde_urlencoded" \in features)
              => codec = Some("form")
        /\ (Header(JSON) /\ "serde_json" \in features)
              => codec = Some("json")
        /\ (IsSome(ctype) /\ StartsWith(Unwrap(ctype), MULTIPART)
              /\ "uploads" \in features)
              => codec = Some("multipart")
        /\ (Unwrap(codec) \in { "form", "json", "multipart" }
              /\ Unwrap(result).ok)
              => Unwrap(result).val[1] = Unwrap(codec)

C16_Witness ==
    /\ Decoded
    /\ Header(MULTIPART \o BOUNDARY)
    /\ "uploads" \in features
    /\ bytes = "--x"
    /\ codec = Some("multipart")
    /\ Unwrap(result).ok

\* ---------------------------------------------------------------- serving
\* the requests whose Context exists
LiveRequests == { r \in Requests : Live(r) }

====
